---- MODULE Spec2Model ----
(***************************************************************************)
(* The Flask backend of the movie-review sentiment service (src/app.py):   *)
(* five request handlers over two external collaborators, the TMDB catalog *)
(* client (tmdb_api) and the sentiment classifier (SentimentAnalyzer).     *)
(* One action per handler; each action runs the whole handler and leaves   *)
(* the request, the response, the upstream calls made, what the analyzer   *)
(* was handed and the exception an upstream call raised (if any) in the    *)
(* state.                                                                  *)
(*                                                                         *)
(* Numbers with two decimals are kept as integers: a percentage p is held  *)
(* as 100 * p (66.67 -> 6667, 100 -> 10000) and a confidence c in [0, 1]   *)
(* as 100 * c (0.9 -> 90).  Text is held as a sequence of characters where *)
(* the code edits it (the overall-sentiment label) and as an opaque        *)
(* string elsewhere.                                                       *)
(***************************************************************************)
EXTENDS Integers, Sequences, FiniteSets, TLC

VARIABLES analyzer, debug, req, resp, calls, raised, analyzer_args

vars == <<analyzer, debug, req, resp, calls, raised, analyzer_args>>

\* ------------------------------------------------------------------ bounds

\* The longest review list the catalog returns for a movie.
MaxReviews == 3
\* The longest array posted to /api/analyze/text.
MaxBatch == 2
\* The most movies a catalog search returns.
MaxResults == 11

\* results[:10]
PageSize == 10

\* ------------------------------------------------------------- vocabulary

\* Python's None, JSON's null.
Null == "None"

Texts == {"t1", "t2", "t3"}
Labels == {"POSITIVE", "NEGATIVE"}
Confs == {60, 90}
\* What an upstream exception says (str(e)).
Messages == {"connection timed out", "model failure"}
MovieIds == {278, 999}

Min(a, b) == IF a < b THEN a ELSE b

RECURSIVE SeqsUpTo(_, _)
\* All sequences over S of length 0..n.
SeqsUpTo(S, n) ==
  IF n = 0 THEN {<<>>}
  ELSE LET shorter == SeqsUpTo(S, n - 1)
       IN shorter \cup {Append(s, x) : s \in {t \in shorter : Len(t) = n - 1}, x \in S}

\* --------------------------------------------------- text as characters

POSITIVE_MARKED == <<"P", "O", "S", "I", "T", "I", "V", "E", " ", "U+2713">>
NEGATIVE_MARKED == <<"N", "E", "G", "A", "T", "I", "V", "E", " ", "U+2717">>
NEUTRAL_MARKED == <<"N", "E", "U", "T", "R", "A", "L", " ", "U+2696">>

RECURSIVE Replace(_, _, _)
\* str.replace(old, new): every non-overlapping occurrence, left to right.
Replace(s, old, new) ==
  IF Len(s) < Len(old) THEN s
  ELSE IF SubSeq(s, 1, Len(old)) = old
       THEN new \o Replace(SubSeq(s, Len(old) + 1, Len(s)), old, new)
       ELSE <<Head(s)>> \o Replace(Tail(s), old, new)

\* ------------------------------------------------------------ JSON values

\* A JSON value as Python holds it after request.json.  Every value has the
\* same fields; t says which of them count.  text holds the value under the
\* key 'text' of an object (a sequence of length 0 or 1).
JNull == [t |-> "null", s |-> "", n |-> 0, items |-> <<>>, keys |-> {}, text |-> <<>>]
JStr(x) == [t |-> "str", s |-> x, n |-> 0, items |-> <<>>, keys |-> {}, text |-> <<>>]
JNum(k) == [t |-> "num", s |-> "", n |-> k, items |-> <<>>, keys |-> {}, text |-> <<>>]
JList(xs) == [t |-> "list", s |-> "", n |-> 0, items |-> xs, keys |-> {}, text |-> <<>>]
JObj(ks) == [t |-> "obj", s |-> "", n |-> 0, items |-> <<>>, keys |-> ks, text |-> <<>>]
JObjText(v) == [t |-> "obj", s |-> "", n |-> 0, items |-> <<>>, keys |-> {"text"}, text |-> <<v>>]

\* bool(x)
Truthy(j) ==
  CASE j.t = "null" -> FALSE
    [] j.t = "str" -> j.s # ""
    [] j.t = "num" -> j.n # 0
    [] j.t = "list" -> j.items # <<>>
    [] j.t = "obj" -> j.keys # {}

\* Whether `'text' in j` raises TypeError (a number is not iterable).
InRaises(j) == j.t = "num"

\* 'text' in j, for a j that `in` accepts: a key of an object, an element of
\* a list, a substring of a string (of the strings posted here only "text"
\* contains it).
HasText(j) ==
  CASE j.t = "obj" -> "text" \in j.keys
    [] j.t = "list" -> \E i \in 1..Len(j.items) : j.items[i] = JStr("text")
    [] j.t = "str" -> j.s = "text"
    [] OTHER -> FALSE

\* Whether j['text'] raises TypeError (a list or a string indexed by a string).
SubscriptRaises(j) == j.t # "obj"

\* ------------------------------------------ Python and Flask primitives

\* dict.get(k): None when the key is absent.
DictGet(d, k) == IF k \in DOMAIN d THEN d[k] ELSE Null

RECURSIVE ArgsGet(_, _, _)
\* request.args.get(k, default) over the query string's (key, value) pairs.
ArgsGet(args, k, default) ==
  IF args = <<>> THEN default
  ELSE IF Head(args)[1] = k THEN Head(args)[2]
  ELSE ArgsGet(Tail(args), k, default)

\* jsonify(body) with its status.
Json(status, body) == [status |-> status, body |-> body]

\* What Flask answers when an exception leaves a view function: status 500,
\* with the generic page, or under app.run(debug=True) the debugger's page,
\* which shows the exception.  Never a JSON body with an 'error' field.
Unhandled(dbg, msg) ==
  [status |-> 500,
   body |-> IF dbg THEN [debugger |-> msg] ELSE [html |-> "Internal Server Error"]]

\* What a handler leaves behind: its response, the upstream calls it made in
\* order, the message of the exception an upstream call raised (Null: none
\* did) and the argument of each analyzer call it made, in order.
Outcome(r, cs, exc, args) ==
  [resp |-> r, calls |-> cs, raised |-> exc, analyzer_args |-> args]

\* ------------------------------------------------------ the TMDB catalog

\* tmdb_api.get_movie_details: the catalog's record of a movie.  Only id and
\* title are always there.
get_movie_details(movie_id) ==
  IF movie_id = 278
  THEN [id |-> "278", title |-> "The Shawshank Redemption", poster_path |-> "/q6y.jpg",
        vote_average |-> "8.7", vote_count |-> "27000", release_date |-> "1994-09-23",
        overview |-> "Framed in the 1940s"]
  ELSE [id |-> "999", title |-> "Untitled"]

\* tmdb_api.search_movie: n matches.
search_movie(n) == [i \in 1..n |-> i]

\* The review lists tmdb_api.get_movie_reviews can return.
ReviewLists == SeqsUpTo([content : Texts, author : {"critic"}], MaxReviews)

\* ---------------------------------------------------------- the analyzer

Verdicts == [label : Labels, confidence : Confs]

\* The loaded models SentimentAnalyzer() can hold: a verdict for every text.
Analyzers == [Texts -> Verdicts]

\* The classifier on one text.  It is a function of the text alone; the empty
\* string, which holds no token, gets the model's fixed default.
Classify(m, text) ==
  IF text \in DOMAIN m THEN m[text] ELSE [label |-> "POSITIVE", confidence |-> 60]

\* SentimentAnalyzer.analyze_single
analyze_single(m, text) ==
  [text |-> text, sentiment |-> Classify(m, text).label,
   confidence |-> Classify(m, text).confidence]

\* The nearest integer to n / d (n >= 0, d > 0), a tie going to the even one,
\* as Python's round does.
RoundHalfEven(n, d) ==
  LET q == n \div d
      r == n % d
  IN IF 2 * r < d THEN q
     ELSE IF 2 * r > d THEN q + 1
     ELSE IF q % 2 = 0 THEN q ELSE q + 1

RECURSIVE CountLabel(_, _, _)
CountLabel(m, texts, label) ==
  IF texts = <<>> THEN 0
  ELSE (IF Classify(m, Head(texts)).label = label THEN 1 ELSE 0)
       + CountLabel(m, Tail(texts), label)

RECURSIVE SumConfidence(_, _)
SumConfidence(m, texts) ==
  IF texts = <<>> THEN 0
  ELSE Classify(m, Head(texts)).confidence + SumConfidence(m, Tail(texts))

\* SentimentAnalyzer.analyze_batch: the statistics of a list of texts, under
\* the keys app.py reads, with the CorpusStats' overall_label beside them.
\* positive_percentage is rounded to two decimals and negative_percentage is
\* what is left of 100; an empty list gives zeros and the "no data" signal
\* for a label.
analyze_batch(m, texts) ==
  LET total == Len(texts)
      pos == CountLabel(m, texts, "POSITIVE")
      pp == IF total = 0 THEN 0 ELSE RoundHalfEven(10000 * pos, total)
  IN [total_reviews |-> total,
      positive_count |-> pos,
      negative_count |-> CountLabel(m, texts, "NEGATIVE"),
      positive_percentage |-> pp,
      negative_percentage |-> IF total = 0 THEN 0 ELSE 10000 - pp,
      average_confidence |->
        IF total = 0 THEN 0 ELSE RoundHalfEven(SumConfidence(m, texts), total),
      overall_label |->
        IF total = 0 THEN "NO_DATA"
        ELSE IF 2 * pp > 10000 THEN "POSITIVE"
        ELSE IF 2 * pp < 10000 THEN "NEGATIVE"
        ELSE "NEUTRAL"]

\* A review with the classifier's verdict on its content.
Exemplar(m, review) ==
  [content |-> review.content, author |-> review.author,
   sentiment |-> Classify(m, review.content).label,
   confidence |-> Classify(m, review.content).confidence]

RECURSIVE Scan(_, _, _, _, _)
\* One pass over the reviews from index i, keeping the most confident review
\* of each label seen so far; a later review replaces the one kept only when
\* strictly more confident.  An absent exemplar is <<>>, a present one <<e>>.
Scan(m, reviews, i, best_pos, best_neg) ==
  IF i > Len(reviews) THEN <<best_pos, best_neg>>
  ELSE LET e == Exemplar(m, reviews[i])
       IN IF e.sentiment = "POSITIVE"
          THEN IF best_pos = <<>> \/ e.confidence > best_pos[1].confidence
               THEN Scan(m, reviews, i + 1, <<e>>, best_neg)
               ELSE Scan(m, reviews, i + 1, best_pos, best_neg)
          ELSE IF best_neg = <<>> \/ e.confidence > best_neg[1].confidence
               THEN Scan(m, reviews, i + 1, best_pos, <<e>>)
               ELSE Scan(m, reviews, i + 1, best_pos, best_neg)

\* SentimentAnalyzer.find_positive_and_negative_examples
find_positive_and_negative_examples(m, reviews_data) ==
  Scan(m, reviews_data, 1, <<>>, <<>>)

\* ------------------------------------------------------------ injected faults

\* Which upstream call of the request raises, and what its exception says.
NoFail == [at |-> "none", msg |-> Null]
FailsAt(names) == {NoFail} \cup [at : names, msg : Messages]

\* ---------------------------------------------------------- health_check

health_check ==
  Outcome(Json(200, [status |-> "healthy", message |-> "Backend is running"]),
          <<>>, Null, <<>>)

\* --------------------------------------------------------- search_movies

\* results[:10]
FirstPage(results) == SubSeq(results, 1, Min(PageSize, Len(results)))

\* `not query`
QueryMissing(query) == query = ""

search_movies(args, n, fail) ==
  LET query == ArgsGet(args, "query", "")
  IN IF QueryMissing(query)
     THEN Outcome(Json(400, [error |-> "Query parameter required"]), <<>>, Null, <<>>)
     ELSE IF fail.at = "search_movie"
     THEN Outcome(Json(500, [error |-> fail.msg]), <<"search_movie">>, fail.msg, <<>>)
     ELSE LET results == search_movie(n)
          IN Outcome(Json(200, [results |-> FirstPage(results), total |-> Len(results)]),
                     <<"search_movie">>, Null, <<>>)

\* ------------------------------------------------------------- get_movie

get_movie(movie_id, fail) ==
  IF fail.at = "get_movie_details"
  THEN Outcome(Json(500, [error |-> fail.msg]), <<"get_movie_details">>, fail.msg, <<>>)
  ELSE Outcome(Json(200, get_movie_details(movie_id)), <<"get_movie_details">>, Null, <<>>)

\* --------------------------------------------------------- analyze_movie

\* The empty review list is not told apart: the handler goes on to the analyzer.
NoReviewsNeverTaken(reviews_data) == FALSE

\* `not reviews_data or len(reviews_data) == 0`
NoReviews(reviews_data) == reviews_data = <<>> \/ Len(reviews_data) = 0

\* The body returned for a movie without reviews.
NoReviewsBody(movie) ==
  [success |-> FALSE,
   movie |-> [id |-> movie["id"], title |-> movie["title"],
              poster_path |-> DictGet(movie, "poster_path"),
              rating |-> DictGet(movie, "vote_average"),
              vote_count |-> DictGet(movie, "vote_count")],
   message |-> "No reviews available for this movie on TMDB.",
   suggestion |-> "Try popular movies"]

\* The pair unpacked in the wrong order.
ExamplesSwapped(m, reviews_data) ==
  <<find_positive_and_negative_examples(m, reviews_data)[2],
    find_positive_and_negative_examples(m, reviews_data)[1]>>

\* best_positive, best_negative = analyzer.find_positive_and_negative_examples(reviews_data)
Examples(m, reviews_data) == find_positive_and_negative_examples(m, reviews_data)

\* review_texts = [r['content'] for r in reviews_data]
ReviewTexts(reviews_data) == [i \in 1..Len(reviews_data) |-> reviews_data[i]["content"]]

\* >= for >: a tie reads as POSITIVE.
OverallSentimentTieWins(overall_stats) ==
  IF overall_stats["positive_percentage"] >= overall_stats["negative_percentage"]
  THEN POSITIVE_MARKED
  ELSE IF overall_stats["negative_percentage"] > overall_stats["positive_percentage"]
  THEN NEGATIVE_MARKED
  ELSE NEUTRAL_MARKED

\* The label printed to the console, with its mark.
OverallSentiment(overall_stats) ==
  IF overall_stats["positive_percentage"] > overall_stats["negative_percentage"]
  THEN POSITIVE_MARKED
  ELSE IF overall_stats["negative_percentage"] > overall_stats["positive_percentage"]
  THEN NEGATIVE_MARKED
  ELSE NEUTRAL_MARKED

\* overall_sentiment.replace(' U+2713', '').replace(' U+2717', '').replace(' U+2696', '')
StripMarks(overall_sentiment) ==
  Replace(Replace(Replace(overall_sentiment, <<" ", "U+2713">>, <<>>),
                  <<" ", "U+2717">>, <<>>),
          <<" ", "U+2696">>, <<>>)

\* negative_percentage filled from the positive one.
SentimentSummaryCopied(overall_stats, overall_sentiment) ==
  [total_reviews_analyzed |-> overall_stats["total_reviews"],
   positive_count |-> overall_stats["positive_count"],
   negative_count |-> overall_stats["negative_count"],
   positive_percentage |-> overall_stats["positive_percentage"],
   negative_percentage |-> overall_stats["positive_percentage"],
   average_confidence |-> overall_stats["average_confidence"],
   overall_sentiment |-> StripMarks(overall_sentiment)]

\* response['sentiment_summary']
SentimentSummary(overall_stats, overall_sentiment) ==
  [total_reviews_analyzed |-> overall_stats["total_reviews"],
   positive_count |-> overall_stats["positive_count"],
   negative_count |-> overall_stats["negative_count"],
   positive_percentage |-> overall_stats["positive_percentage"],
   negative_percentage |-> overall_stats["negative_percentage"],
   average_confidence |-> overall_stats["average_confidence"],
   overall_sentiment |-> StripMarks(overall_sentiment)]

\* The test inverted for a present exemplar: the marker is returned always.
ExampleOrMarkerAlwaysMarker(best, message) == [message |-> message, content |-> Null]

\* `best if best else {'message': ..., 'content': None}`
ExampleOrMarker(best, message) ==
  IF best # <<>> THEN best[1] ELSE [message |-> message, content |-> Null]

\* response['movie']
MovieCard(movie) ==
  [id |-> movie["id"], title |-> movie["title"],
   poster_path |-> DictGet(movie, "poster_path"),
   rating |-> DictGet(movie, "vote_average"),
   vote_count |-> DictGet(movie, "vote_count"),
   release_date |-> DictGet(movie, "release_date"),
   overview |-> DictGet(movie, "overview")]

\* The body of a successful analysis.
AnalysisBody(movie, best, overall_stats) ==
  [success |-> TRUE,
   movie |-> MovieCard(movie),
   sentiment_summary |-> SentimentSummary(overall_stats, OverallSentiment(overall_stats)),
   example_positive_review |-> ExampleOrMarker(best[1], "No positive reviews found"),
   example_negative_review |-> ExampleOrMarker(best[2], "No negative reviews found")]

\* `except Exception as e: return jsonify({'error': str(e)}), 500`
Caught(cs, msg, args) == Outcome(Json(500, [error |-> msg]), cs, msg, args)

\* The handler: reviews_data is what the catalog returns for the movie, m the
\* loaded model.  The analyzer is called twice, first with the reviews as the
\* catalog gave them, then with their contents.
analyze_movie(movie_id, reviews_data, fail, m) ==
  IF fail.at = "get_movie_details"
  THEN Caught(<<"get_movie_details">>, fail.msg, <<>>)
  ELSE IF fail.at = "get_movie_reviews"
  THEN Caught(<<"get_movie_details", "get_movie_reviews">>, fail.msg, <<>>)
  ELSE LET movie == get_movie_details(movie_id)
           looked_up == <<"get_movie_details", "get_movie_reviews">>
       IN IF NoReviews(reviews_data)
          THEN Outcome(Json(200, NoReviewsBody(movie)), looked_up, Null, <<>>)
          ELSE IF fail.at = "find_positive_and_negative_examples"
          THEN Caught(Append(looked_up, "find_positive_and_negative_examples"), fail.msg,
                      <<reviews_data>>)
          ELSE LET best == Examples(m, reviews_data)
                   review_texts == ReviewTexts(reviews_data)
                   called == looked_up \o <<"find_positive_and_negative_examples",
                                            "analyze_batch">>
               IN IF fail.at = "analyze_batch"
                  THEN Caught(called, fail.msg, <<reviews_data, review_texts>>)
                  ELSE Outcome(Json(200, AnalysisBody(movie, best, analyze_batch(m, review_texts))),
                               called, Null, <<reviews_data, review_texts>>)

\* ---------------------------------------------------------- analyze_text

\* isinstance(text, str)
IsStr(text) == text.t = "str"

\* isinstance(text, list)
IsList(text) == text.t = "list"

\* `not data or 'text' not in data`, for a data that `in` accepts.
TextMissing(data) == ~Truthy(data) \/ ~HasText(data)

\* What the classifier reads of an element of a posted array: the string, or
\* for an element that is no string whatever the analyzer makes of it, which
\* is none of the texts the model knows.  (The analyzer may as well raise on
\* it: that is the fault injected at analyze_batch.)
TextOf(item) == IF item.t = "str" THEN item.s ELSE "<not a string>"

\* analyzer.analyze_batch(text): the array is handed over as posted, its
\* elements unchecked.
BatchTexts(text) == [i \in 1..Len(text.items) |-> TextOf(text.items[i])]

\* The handler has no try/except: every exception leaves it.
analyze_text(data, fail, m, dbg) ==
  IF Truthy(data) /\ InRaises(data)
  THEN Outcome(Unhandled(dbg, "argument of type 'int' is not iterable"), <<>>, Null, <<>>)
  ELSE IF TextMissing(data)
  THEN Outcome(Json(400, [error |-> "Text field required"]), <<>>, Null, <<>>)
  ELSE IF SubscriptRaises(data)
  THEN Outcome(Unhandled(dbg, "indices must be integers"), <<>>, Null, <<>>)
  ELSE LET text == data.text[1]
       IN IF IsStr(text)
          THEN IF fail.at = "analyze_single"
               THEN Outcome(Unhandled(dbg, fail.msg), <<"analyze_single">>, fail.msg,
                            <<text.s>>)
               ELSE Outcome(Json(200, analyze_single(m, text.s)), <<"analyze_single">>, Null,
                            <<text.s>>)
          ELSE IF IsList(text)
          THEN IF fail.at = "analyze_batch"
               THEN Outcome(Unhandled(dbg, fail.msg), <<"analyze_batch">>, fail.msg,
                            <<BatchTexts(text)>>)
               ELSE Outcome(Json(200, analyze_batch(m, BatchTexts(text))),
                            <<"analyze_batch">>, Null, <<BatchTexts(text)>>)
          ELSE Outcome(Json(400, [error |-> "Text must be string or array"]), <<>>, Null, <<>>)

\* ------------------------------------------------------------ the inputs

QueryStrings == {<<>>, <<<<"query", "">>>>, <<<<"query", "inception">>>>,
                 <<<<"page", "2">>>>}

\* What a client can post under 'text'.
TextValues ==
  {JStr(x) : x \in Texts \cup {""}}
  \cup {JList(xs) : xs \in SeqsUpTo({JStr(x) : x \in Texts}, MaxBatch)}
  \cup {JList(<<JNum(1)>>), JList(<<JStr("t1"), JNum(1)>>), JNum(5), JNull, JObj({"k"})}

\* What a client can post: no body or null, JSON that is not an object, an
\* object without 'text', an object with it.
Bodies ==
  {JNull, JObj({}), JObj({"other"}), JNum(0), JNum(5), JStr("text"), JStr("hello"),
   JList(<<>>), JList(<<JStr("text")>>)}
  \cup {JObjText(v) : v \in TextValues}

\* ------------------------------------------------------------- the system

\* No request is being served.
NoRequest == [endpoint |-> "none"]
NoResponse == [status |-> 0, body |-> [idle |-> TRUE]]

\* The module's start-up: the model is loaded once, the server's mode is set.
Init ==
  /\ analyzer \in Analyzers
  /\ debug \in BOOLEAN
  /\ req = NoRequest
  /\ resp = NoResponse
  /\ calls = <<>>
  /\ raised = Null
  /\ analyzer_args = <<>>

\* The response is sent and the request's context is dropped: nothing of a
\* request outlives it.
Teardown ==
  /\ req # NoRequest
  /\ req' = NoRequest
  /\ resp' = NoResponse
  /\ calls' = <<>>
  /\ raised' = Null
  /\ analyzer_args' = <<>>
  /\ UNCHANGED <<analyzer, debug>>

\* Each handler runs from start to finish as one step, when no request is
\* being served: its outcome is the request's whole effect.  The model and
\* the mode are never written.

HealthCheckRequest ==
  /\ req = NoRequest
  /\ req' = [endpoint |-> "health_check"]
  /\ resp' = health_check.resp
  /\ calls' = health_check.calls
  /\ raised' = health_check.raised
  /\ analyzer_args' = health_check.analyzer_args
  /\ UNCHANGED <<analyzer, debug>>

SearchMoviesRequest ==
  /\ req = NoRequest
  /\ \E args \in QueryStrings, n \in 0..MaxResults, fail \in FailsAt({"search_movie"}) :
       LET out == search_movies(args, n, fail)
       IN /\ req' = [endpoint |-> "search_movies", args |-> args, n |-> n, fail |-> fail]
          /\ resp' = out.resp
          /\ calls' = out.calls
          /\ raised' = out.raised
          /\ analyzer_args' = out.analyzer_args
  /\ UNCHANGED <<analyzer, debug>>

GetMovieRequest ==
  /\ req = NoRequest
  /\ \E movie_id \in MovieIds, fail \in FailsAt({"get_movie_details"}) :
       LET out == get_movie(movie_id, fail)
       IN /\ req' = [endpoint |-> "get_movie", movie_id |-> movie_id, fail |-> fail]
          /\ resp' = out.resp
          /\ calls' = out.calls
          /\ raised' = out.raised
          /\ analyzer_args' = out.analyzer_args
  /\ UNCHANGED <<analyzer, debug>>

AnalyzeMovieRequest ==
  /\ req = NoRequest
  /\ \E movie_id \in MovieIds, reviews_data \in ReviewLists,
        fail \in FailsAt({"get_movie_details", "get_movie_reviews",
                          "find_positive_and_negative_examples", "analyze_batch"}) :
       LET out == analyze_movie(movie_id, reviews_data, fail, analyzer)
       IN /\ req' = [endpoint |-> "analyze_movie", movie_id |-> movie_id,
                     reviews |-> reviews_data, fail |-> fail]
          /\ resp' = out.resp
          /\ calls' = out.calls
          /\ raised' = out.raised
          /\ analyzer_args' = out.analyzer_args
  /\ UNCHANGED <<analyzer, debug>>

AnalyzeTextRequest ==
  /\ req = NoRequest
  /\ \E data \in Bodies, fail \in FailsAt({"analyze_single", "analyze_batch"}) :
       LET out == analyze_text(data, fail, analyzer, debug)
       IN /\ req' = [endpoint |-> "analyze_text", data |-> data, fail |-> fail]
          /\ resp' = out.resp
          /\ calls' = out.calls
          /\ raised' = out.raised
          /\ analyzer_args' = out.analyzer_args
  /\ UNCHANGED <<analyzer, debug>>

Next ==
  \/ HealthCheckRequest
  \/ SearchMoviesRequest
  \/ GetMovieRequest
  \/ AnalyzeMovieRequest
  \/ AnalyzeTextRequest
  \/ Teardown

Spec == Init /\ [][Next]_vars

\* ======================================================== the properties

PLAIN_POSITIVE == <<"P", "O", "S", "I", "T", "I", "V", "E">>
PLAIN_NEGATIVE == <<"N", "E", "G", "A", "T", "I", "V", "E">>
PLAIN_NEUTRAL == <<"N", "E", "U", "T", "R", "A", "L">>

SummaryFields ==
  {"total_reviews_analyzed", "positive_count", "negative_count", "positive_percentage",
   "negative_percentage", "average_confidence", "overall_sentiment"}

AnalyzerCalls == {"analyze_single", "analyze_batch", "find_positive_and_negative_examples"}

\* The calls of the request, by position, that went to one of `names`.
Called(names) == {i \in 1..Len(calls) : calls[i] \in names}

\* A movie-analysis request whose two catalog lookups succeeded.
MovieLookedUp ==
  /\ req.endpoint = "analyze_movie"
  /\ req.fail.at \notin {"get_movie_details", "get_movie_reviews"}

\* A movie analysis answered with success = true.
MovieAnalysed ==
  /\ req.endpoint = "analyze_movie"
  /\ "success" \in DOMAIN resp.body
  /\ resp.body.success

\* The request's reviews the loaded model labels `label`, as positions.
Labelled(label) ==
  {i \in 1..Len(req.reviews) : analyzer[req.reviews[i].content].label = label}

\* The response's exemplar field of a label.
ExampleField(label) ==
  IF label = "POSITIVE" THEN resp.body.example_positive_review
  ELSE resp.body.example_negative_review

\* The field holds the "none available" marker / a review with its verdict.
IsMarker(ex) == DOMAIN ex = {"message", "content"} /\ ex.content = Null
IsExemplar(ex) == DOMAIN ex = {"content", "author", "sentiment", "confidence"}

\* ---- C1.  A movie analysis whose catalog lookups succeed answers
\* success = false, with a message and a suggestion, without statistics and
\* without any classifier call, exactly when the catalog returned no review;
\* and every success = true answer reports total_reviews_analyzed >= 1.
C1_NoReviewsIsNoData ==
  MovieLookedUp =>
    /\ ( /\ "success" \in DOMAIN resp.body
         /\ ~resp.body.success
         /\ {"message", "suggestion"} \subseteq DOMAIN resp.body
         /\ "sentiment_summary" \notin DOMAIN resp.body
         /\ Called(AnalyzerCalls) = {}
         /\ analyzer_args = <<>> )
       <=> (Len(req.reviews) = 0)
    /\ MovieAnalysed => resp.body.sentiment_summary.total_reviews_analyzed >= 1

\* A movie without reviews was analysed and answered success = false.
C1_Witness ==
  /\ MovieLookedUp
  /\ Len(req.reviews) = 0
  /\ resp.status = 200
  /\ ~resp.body.success

\* ---- C2.  In a successful movie analysis overall_sentiment is one of the
\* bare words POSITIVE, NEGATIVE, NEUTRAL; it is POSITIVE iff
\* positive_percentage > negative_percentage, NEGATIVE iff the reverse and
\* NEUTRAL iff the two are equal; and it depends on how many reviews carry
\* each label, not on their order.
C2_OverallSentimentPlain ==
  MovieAnalysed =>
    LET sum == resp.body.sentiment_summary
        n_pos == Cardinality(Labelled("POSITIVE"))
        n_neg == Cardinality(Labelled("NEGATIVE"))
    IN /\ sum.overall_sentiment \in {PLAIN_POSITIVE, PLAIN_NEGATIVE, PLAIN_NEUTRAL}
       /\ (sum.overall_sentiment = PLAIN_POSITIVE)
            <=> (sum.positive_percentage > sum.negative_percentage)
       /\ (sum.overall_sentiment = PLAIN_NEGATIVE)
            <=> (sum.negative_percentage > sum.positive_percentage)
       /\ (sum.overall_sentiment = PLAIN_NEUTRAL)
            <=> (sum.positive_percentage = sum.negative_percentage)
       /\ (sum.overall_sentiment = PLAIN_POSITIVE) <=> (n_pos > n_neg)
       /\ (sum.overall_sentiment = PLAIN_NEGATIVE) <=> (n_neg > n_pos)

\* A 50/50 analysis answered NEUTRAL.
C2_Witness ==
  /\ MovieAnalysed
  /\ resp.body.sentiment_summary.positive_percentage = 5000
  /\ resp.body.sentiment_summary.negative_percentage = 5000
  /\ resp.body.sentiment_summary.overall_sentiment = PLAIN_NEUTRAL

\* ---- C3.  Whenever a catalog or classifier call raises during a request,
\* on any endpoint, the answer is a 500 that carries the exception's message,
\* and holds neither statistics nor exemplars.
C3_UpstreamFailureSurfaced ==
  raised # Null =>
    /\ resp.status = 500
    /\ \/ ("error" \in DOMAIN resp.body /\ resp.body.error = raised)
       \/ ("debugger" \in DOMAIN resp.body /\ resp.body.debugger = raised)
    /\ DOMAIN resp.body \cap
         ({"sentiment_summary", "example_positive_review", "example_negative_review"}
          \cup (SummaryFields \cup {"total_reviews"})) = {}

\* Whether a request lacks its required field: the search query absent or
\* empty; no body posted (null), an object without 'text', or an object whose
\* 'text' is the empty string.
RequiredFieldMissing ==
  \/ req.endpoint = "search_movies" /\ ArgsGet(req.args, "query", "") = ""
  \/ /\ req.endpoint = "analyze_text"
     /\ \/ req.data.t = "null"
        \/ req.data.t = "obj" /\ "text" \notin req.data.keys
        \/ req.data.t = "obj" /\ "text" \in req.data.keys /\ req.data.text[1] = JStr("")

\* ---- C4.  A request whose required field is missing or empty is answered
\* with a client error (400), and no catalog call and no classifier call was
\* made for it.
C4_MissingFieldRejected ==
  RequiredFieldMissing => (resp.status = 400 /\ calls = <<>> /\ analyzer_args = <<>>)

\* Every element of a posted array is a string.
AllStrings(text) == \A i \in 1..Len(text.items) : text.items[i].t = "str"

\* The value posted under 'text', when the body is an object holding one.
HasTextValue ==
  /\ req.endpoint = "analyze_text"
  /\ req.data.t = "obj"
  /\ "text" \in req.data.keys

\* ---- C5.  analyze_text dispatches on the type of 'text': a string goes to
\* analyze_single and yields one verdict, a list of strings goes to
\* analyze_batch and yields statistics, and anything else (a number, an
\* object, null, a list holding a non-string) is answered 400 without any
\* classifier call.
C5_TextTypeDispatch ==
  HasTextValue =>
    LET text == req.data.text[1]
    IN /\ text.t = "str" =>
            /\ calls = <<"analyze_single">>
            /\ raised = Null =>
                 (resp.status = 200
                  /\ DOMAIN resp.body = {"text", "sentiment", "confidence"})
       /\ (text.t = "list" /\ AllStrings(text)) =>
            /\ calls = <<"analyze_batch">>
            /\ raised = Null =>
                 (resp.status = 200 /\ "positive_percentage" \in DOMAIN resp.body)
       /\ ~(text.t = "str" \/ (text.t = "list" /\ AllStrings(text))) =>
            (resp.status = 400 /\ calls = <<>> /\ analyzer_args = <<>>)

\* ---- C6.  In a successful movie analysis, for each label: when the model
\* gives no review that label the exemplar field is the marker (a message
\* and content = None), and otherwise it is one of the request's reviews
\* with its verdict, of that label; either way the full statistics are there.
C6_MarkerWhenNoExemplar ==
  MovieAnalysed =>
    /\ resp.status = 200
    /\ DOMAIN resp.body.sentiment_summary = SummaryFields
    /\ \A label \in Labels :
         LET ex == ExampleField(label)
         IN IF Labelled(label) = {}
            THEN /\ IsMarker(ex)
                 /\ ex.message = (IF label = "POSITIVE" THEN "No positive reviews found"
                                  ELSE "No negative reviews found")
            ELSE /\ IsExemplar(ex)
                 /\ ex.sentiment = label
                 /\ \E i \in Labelled(label) : ex = Exemplar(analyzer, req.reviews[i])

\* An all-positive movie: the negative exemplar is the marker, the positive
\* one a review.
C6_Witness ==
  /\ MovieAnalysed
  /\ Len(req.reviews) >= 2
  /\ Labelled("NEGATIVE") = {}
  /\ IsMarker(resp.body.example_negative_review)
  /\ IsExemplar(resp.body.example_positive_review)

\* The statistics are those of n texts of which k are positive: the counts
\* add up to n, the percentages to 100, positive_percentage is the two-decimal
\* number nearest to 100 * k / n.
StatsOf(total, pos, neg, pp, np, n, k) ==
  /\ total = n
  /\ pos = k
  /\ pos + neg = total
  /\ pp + np = 10000
  /\ 2 * (pp * n - 10000 * k) <= n
  /\ 2 * (10000 * k - pp * n) <= n

\* A non-empty array of strings posted to analyze_text and analysed.
BatchAnalysed ==
  /\ HasTextValue
  /\ req.data.text[1].t = "list"
  /\ AllStrings(req.data.text[1])
  /\ Len(req.data.text[1].items) > 0
  /\ resp.status = 200

\* ---- C7.  For every non-empty list of reviews or texts the statistics
\* satisfy positive_count + negative_count = total and positive_percentage +
\* negative_percentage = 100, positive_percentage being 100 * positive_count
\* / total rounded to two decimals; the movie response reports them as the
\* analyzer computed them.
C7_StatisticsAddUp ==
  /\ MovieAnalysed =>
       LET sum == resp.body.sentiment_summary
       IN StatsOf(sum.total_reviews_analyzed, sum.positive_count, sum.negative_count,
                  sum.positive_percentage, sum.negative_percentage,
                  Len(req.reviews), Cardinality(Labelled("POSITIVE")))
  /\ BatchAnalysed =>
       LET items == req.data.text[1].items
       IN StatsOf(resp.body.total_reviews, resp.body.positive_count,
                  resp.body.negative_count, resp.body.positive_percentage,
                  resp.body.negative_percentage, Len(items),
                  Cardinality({i \in 1..Len(items) : analyzer[items[i].s].label = "POSITIVE"}))

\* Two positives and one negative: 66.67 and 33.33.
C7_Witness ==
  /\ MovieAnalysed
  /\ resp.body.sentiment_summary.positive_count = 2
  /\ resp.body.sentiment_summary.negative_count = 1
  /\ resp.body.sentiment_summary.positive_percentage = 6667
  /\ resp.body.sentiment_summary.negative_percentage = 3333

\* Review i is the one a selector must return for its label: no review of
\* the label is more confident, and none before it is as confident.
FirstMostConfident(i, label) ==
  LET conf(j) == analyzer[req.reviews[j].content].confidence
  IN /\ i \in Labelled(label)
     /\ \A j \in Labelled(label) : conf(j) <= conf(i)
     /\ \A j \in Labelled(label) : j < i => conf(j) < conf(i)

\* ---- C8.  For each label the exemplar in a movie response is a review of
\* that label of maximal confidence among the reviews of that label, the
\* first such in the catalog's order; it is absent exactly when no review
\* has the label.
C8_ExemplarFirstMostConfident ==
  MovieAnalysed =>
    \A label \in Labels :
      LET ex == ExampleField(label)
      IN /\ IsMarker(ex) <=> (Labelled(label) = {})
         /\ ~IsMarker(ex) =>
              \E i \in 1..Len(req.reviews) :
                /\ FirstMostConfident(i, label)
                /\ ex = Exemplar(analyzer, req.reviews[i])

\* Two different reviews of one label tie at the top, a review of the other
\* label is there too, and the response shows the first of the two.
C8_Witness ==
  /\ MovieAnalysed
  /\ \E i, j \in Labelled("POSITIVE") :
       /\ i < j
       /\ req.reviews[i].content # req.reviews[j].content
       /\ analyzer[req.reviews[i].content].confidence
            = analyzer[req.reviews[j].content].confidence
       /\ FirstMostConfident(i, "POSITIVE")
       /\ resp.body.example_positive_review.content = req.reviews[i].content
  /\ Labelled("NEGATIVE") # {}

\* The summary the movie path reports for the texts of a posted array.
MovieSummaryOf(items) ==
  analyze_movie(278, [i \in 1..Len(items) |-> [content |-> items[i].s, author |-> "critic"]],
                NoFail, analyzer).resp.body.sentiment_summary

\* ---- C9.  The statistics object analyze_text returns for a non-empty
\* array of strings has the fields of the movie path's sentiment_summary
\* (total_reviews_analyzed, the two counts, the two percentages,
\* average_confidence, overall_sentiment).
C9_SameFieldsAsSummary ==
  BatchAnalysed =>
    /\ DOMAIN MovieSummaryOf(req.data.text[1].items) = SummaryFields
    /\ DOMAIN resp.body = DOMAIN MovieSummaryOf(req.data.text[1].items)

\* The two exemplar fields and the two counts tell the same story.
ExemplarsAgreeWithCounts ==
  /\ IsExemplar(resp.body.example_positive_review)
       <=> (resp.body.sentiment_summary.positive_count >= 1)
  /\ IsExemplar(resp.body.example_negative_review)
       <=> (resp.body.sentiment_summary.negative_count >= 1)

RECURSIVE HandedOver(_)
\* How many unclassified reviews or texts the analyzer calls were handed.
HandedOver(args) ==
  IF args = <<>> THEN 0 ELSE Len(Head(args)) + HandedOver(Tail(args))

\* ---- C10.  In a movie analysis the reviews go to classification once
\* (as many texts are handed to the analyzer as there are reviews, in a
\* single analyzer call), the one verdict sequence serving both the selector
\* and the aggregator, and the exemplars agree with the counts.
C10_OneVerdictSequence ==
  MovieAnalysed =>
    /\ Cardinality(Called(AnalyzerCalls)) = 1
    /\ HandedOver(analyzer_args) = Len(req.reviews)
    /\ ExemplarsAgreeWithCounts

====
